---- MODULE Spec2Model ----
(***************************************************************************)
(* ClauseCraft: the line-addressable document and the doc_edit tool.       *)
(*                                                                         *)
(* A Document is an ordered list of lines; executeDocEdit (lib/gemini      *)
(* tools) validates and applies replace / insert / delete batches to it,   *)
(* and the page's handleLineToggleLock flips the lock flag of one line.    *)
(*                                                                         *)
(* Line numbers are JavaScript numbers.  The insert case gives a new line  *)
(* the temporary number lineNum + 0.5, so numbers are held here in halves: *)
(* the number n is the integer 2n and n + 0.5 is 2n + 1.                   *)
(***************************************************************************)
EXTENDS Integers, Sequences, FiniteSets, TLC

\* ------------------------------------------------------------------------
\* Bounds of the model
\* ------------------------------------------------------------------------
\* longest document the model lets an insert grow to
MaxLines == 4
\* longest params.lines list of one doc_edit call
MaxTargets == 2

\* ------------------------------------------------------------------------
\* Values
\* ------------------------------------------------------------------------
\* the JavaScript value undefined (an absent newText)
Undefined == "<undefined>"

\* the number n, in halves
Num(n) == 2 * n

\* lineNum + 0.5, the temporary number of an inserted line
PlusHalf(lineNum) == lineNum + 1

\* whether a number is an integer
IsInteger(x) == x % 2 = 0

\* !v for a string-or-undefined v: undefined and "" are both falsy
Falsy(v) == v = Undefined \/ v = ""

\* v || ''
OrEmpty(v) == IF Falsy(v) THEN "" ELSE v

\* interface Line
Line(n, t, p, l, ph) ==
    [lineNumber |-> n, text |-> t, pageNumber |-> p, isLocked |-> l, isPlaceholder |-> ph]

\* what a parser hands over, scaled down: lineNumber = index + 1, pageNumber =
\* ceil(lineNumber / LINES_PER_PAGE) with two lines to a page, isLocked false,
\* isPlaceholder as the text decides (the second line stands for a placeholder)
IngestedLines ==
    << Line(Num(1), "A", 1, FALSE, FALSE),
       Line(Num(2), "B", 1, FALSE, TRUE),
       Line(Num(3), "C", 2, FALSE, FALSE) >>

\* interface Document, built from the first n ingested lines
IngestedDocument(n) ==
    [ id |-> "doc",
      lines |-> SubSeq(IngestedLines, 1, n),
      metadata |-> [totalLines |-> n, totalPages |-> 2, format |-> "markdown"] ]

\* ------------------------------------------------------------------------
\* Inputs of a doc_edit call
\* ------------------------------------------------------------------------
\* params.operation: the three declared kinds and one the schema does not know
Operations == {"replace", "insert", "delete", "move"}

\* line numbers the model can name: every line of a document and one past the longest
LineNumbers == {Num(n) : n \in 1..(MaxLines + 1)}

\* params.lines
TargetLists == UNION {[1..k -> LineNumbers] : k \in 0..MaxTargets}

\* params.newText
NewTexts == {"X", "", Undefined}

\* ------------------------------------------------------------------------
\* Array helpers
\* ------------------------------------------------------------------------
\* document.lines.findIndex(l => l.lineNumber === lineNum), 1-based; 0 for -1
FindIndex(lines, lineNum) ==
    LET hits == {i \in 1..Len(lines) : lines[i].lineNumber = lineNum}
    IN  IF hits = {} THEN 0 ELSE CHOOSE i \in hits : \A j \in hits : i <= j

\* splice at the found index itself: the new line lands before the target
SpliceAtIndex(lines, index, newLine) ==
    SubSeq(lines, 1, index - 1) \o <<newLine>> \o SubSeq(lines, index, Len(lines))

\* lines.splice(index, 0, newLine): newLine becomes the element after index
SpliceAfter(lines, index, newLine) ==
    SubSeq(lines, 1, index) \o <<newLine>> \o SubSeq(lines, index + 1, Len(lines))

\* the renumbering pass left out
RenumberSkipped(lines) == lines

\* document.lines.forEach((line, index) => line.lineNumber = index + 1)
Renumber(lines) ==
    [i \in 1..Len(lines) |-> [lines[i] EXCEPT !.lineNumber = Num(i)]]

\* new Set(params.lines)
SetOf(seq) == {seq[i] : i \in 1..Len(seq)}

\* ------------------------------------------------------------------------
\* executeDocEdit
\* ------------------------------------------------------------------------
\* a failure return: { success: false, modifiedLines: [], error }
Failure(error) == [success |-> FALSE, modifiedLines |-> <<>>, error |-> error]

\* the success return: { success: true, modifiedLines }
Success(modifiedLines) == [success |-> TRUE, modifiedLines |-> modifiedLines, error |-> Undefined]

\* the newText check written for replace only
NewTextMissingReplaceOnly(params) ==
    params.operation = "replace" /\ (params.newText = Undefined \/ params.newText = "")

\* (operation === 'replace' || operation === 'insert') && !params.newText
NewTextMissing(params) ==
    params.operation \in {"replace", "insert"} /\ Falsy(params.newText)

\* the lock check looking at params.lines[0] only
LockedLinesFirstTarget(params, document) ==
    LET hit == {i \in 1..Len(document.lines) :
                    /\ Len(params.lines) > 0
                    /\ document.lines[i].lineNumber = params.lines[1]
                    /\ document.lines[i].isLocked}
    IN  IF hit = {} THEN <<>> ELSE <<params.lines[1]>>

\* the lock check refusing only when every target is locked
LockedLinesWhenAll(params, document) ==
    LET locked(n) == \E i \in 1..Len(document.lines) :
                        document.lines[i].lineNumber = n /\ document.lines[i].isLocked
    IN  IF \A k \in 1..Len(params.lines) : locked(params.lines[k])
        THEN params.lines ELSE <<>>

\* the lock check counting a target with no line as locked
LockedLinesOrMissing(params, document) ==
    LET free(n) == \E i \in 1..Len(document.lines) :
                      document.lines[i].lineNumber = n /\ ~document.lines[i].isLocked
    IN  SelectSeq(params.lines, LAMBDA n : ~free(n))

\* params.lines.filter(lineNum => document.lines.find(...)?.isLocked)
LockedLines(params, document) ==
    LET isLocked(lineNum) ==
            LET i == FindIndex(document.lines, lineNum)
            IN  i # 0 /\ document.lines[i].isLocked
    IN  SelectSeq(params.lines, isLocked)

\* the targeted line rebuilt as a fresh object instead of updated in place
ReplaceLineRebuilt(lines, lineIndex, newText) ==
    [lines EXCEPT ![lineIndex] =
        Line(@.lineNumber, IF newText = Undefined THEN "" ELSE newText, @.pageNumber, FALSE, FALSE)]

\* document.lines[lineIndex].text = params.newText || ''
ReplaceLine(lines, lineIndex, newText) ==
    [lines EXCEPT ![lineIndex].text = OrEmpty(newText)]

\* case 'replace': the loop over params.lines, from entry k on
RECURSIVE ReplaceFrom(_, _, _, _, _)
ReplaceFrom(lines, modifiedLines, targets, k, newText) ==
    IF k > Len(targets)
    THEN [lines |-> lines, modifiedLines |-> modifiedLines]
    ELSE LET lineNum == targets[k]
             lineIndex == FindIndex(lines, lineNum)
         IN  IF lineIndex # 0
             THEN ReplaceFrom(ReplaceLine(lines, lineIndex, newText),
                              Append(modifiedLines, lineNum), targets, k + 1, newText)
             ELSE ReplaceFrom(lines, modifiedLines, targets, k + 1, newText)

\* case 'replace'
ReplaceCase(lines, params) ==
    ReplaceFrom(lines, <<>>, params.lines, 1, params.newText)

\* delete honouring params.lines[0] only
DeleteCaseFirstTarget(lines, params) ==
    LET gone == SelectSeq(lines, LAMBDA line : line.lineNumber = params.lines[1])
        rest == SelectSeq(lines, LAMBDA line : line.lineNumber # params.lines[1])
    IN  [ lines |-> [i \in 1..Len(rest) |-> [rest[i] EXCEPT !.lineNumber = 2 * i]],
          modifiedLines |-> [i \in 1..Len(gone) |-> gone[i].lineNumber] ]

\* delete reporting every requested number, found or not
DeleteCaseReportsRequested(lines, params) ==
    LET rest == SelectSeq(lines, LAMBDA line :
                    \A k \in 1..Len(params.lines) : line.lineNumber # params.lines[k])
    IN  [ lines |-> [i \in 1..Len(rest) |-> [rest[i] EXCEPT !.lineNumber = 2 * i]],
          modifiedLines |-> params.lines ]

\* case 'delete': the filter, its pushes to modifiedLines, and the renumbering
DeleteCase(lines, params) ==
    LET linesToDelete == SetOf(params.lines)
        deleted(line) == line.lineNumber \in linesToDelete
        kept(line) == ~deleted(line)
        gone == SelectSeq(lines, deleted)
    IN  [ lines |-> Renumber(SelectSeq(lines, kept)),
          modifiedLines |-> [i \in 1..Len(gone) |-> gone[i].lineNumber] ]

\* a new line put on the first page whatever line it follows
NewLineFirstPage(lineNum, newText, after) ==
    Line(PlusHalf(lineNum), OrEmpty(newText), 1, FALSE, FALSE)

\* the newLine literal of case 'insert'
NewLine(lineNum, newText, after) ==
    Line(PlusHalf(lineNum), OrEmpty(newText), after.pageNumber, FALSE, FALSE)

\* case 'insert': the loop over params.lines, from entry k on
RECURSIVE InsertFrom(_, _, _, _, _)
InsertFrom(lines, modifiedLines, targets, k, newText) ==
    IF k > Len(targets)
    THEN [lines |-> lines, modifiedLines |-> modifiedLines]
    ELSE LET lineNum == targets[k]
             lineIndex == FindIndex(lines, lineNum)
         IN  IF lineIndex # 0
             THEN InsertFrom(SpliceAfter(lines, lineIndex,
                                         NewLine(lineNum, newText, lines[lineIndex])),
                             Append(modifiedLines, lineNum), targets, k + 1, newText)
             ELSE InsertFrom(lines, modifiedLines, targets, k + 1, newText)

\* an insert that serves each number once, however often it is listed
InsertCaseOncePerNumber(lines, params) ==
    LET targets == params.lines
        first(k) == \A j \in 1..(k - 1) : targets[j] # targets[k]
        once == {k \in 1..Len(targets) : first(k)}
        done == InsertFrom(lines, <<>>,
                           IF once = 1..Len(targets) THEN targets ELSE <<targets[1]>>,
                           1, params.newText)
    IN  [lines |-> Renumber(done.lines), modifiedLines |-> done.modifiedLines]

\* case 'insert': the loop, then the renumbering
InsertCase(lines, params) ==
    LET done == InsertFrom(lines, <<>>, params.lines, 1, params.newText)
    IN  [lines |-> Renumber(done.lines), modifiedLines |-> done.modifiedLines]

\* the metadata update left out
UpdateMetadataSkipped(document) == document

\* document.metadata.totalLines = document.lines.length
UpdateMetadata(document) ==
    [document EXCEPT !.metadata.totalLines = Len(document.lines)]

\* the switch over params.operation, the metadata update and the return
PerformEdit(params, document) ==
    IF params.operation \notin {"replace", "insert", "delete"}
    THEN [ document |-> document,
           result |-> Failure("Unknown operation") ]
    ELSE LET done == CASE params.operation = "replace" -> ReplaceCase(document.lines, params)
                       [] params.operation = "delete" -> DeleteCase(document.lines, params)
                       [] params.operation = "insert" -> InsertCase(document.lines, params)
         IN  [ document |-> UpdateMetadata([document EXCEPT !.lines = done.lines]),
               result |-> Success(done.modifiedLines) ]

\* executeDocEdit(params, document): the document it leaves and the value it returns
ExecuteDocEdit(params, document) ==
    IF Len(params.lines) = 0
    THEN [document |-> document, result |-> Failure("No line numbers provided")]
    ELSE IF NewTextMissing(params)
    THEN [document |-> document, result |-> Failure("New text is required")]
    ELSE IF Len(LockedLines(params, document)) > 0
    THEN [document |-> document, result |-> Failure("Cannot edit locked lines")]
    ELSE PerformEdit(params, document)

\* ------------------------------------------------------------------------
\* handleLineToggleLock
\* ------------------------------------------------------------------------
\* a toggle that flips the line clicked and every line after it
ToggleLockFromLine(document, line) ==
    [document EXCEPT !.lines =
        [i \in 1..Len(document.lines) |->
            IF document.lines[i].lineNumber >= line.lineNumber
            THEN [document.lines[i] EXCEPT !.isLocked = ~document.lines[i].isLocked]
            ELSE document.lines[i]]]

\* document.lines.map(l => l.lineNumber === line.lineNumber ? {...l, isLocked: !l.isLocked} : l)
ToggleLock(document, line) ==
    [document EXCEPT !.lines =
        [i \in 1..Len(document.lines) |->
            IF document.lines[i].lineNumber = line.lineNumber
            THEN [document.lines[i] EXCEPT !.isLocked = ~document.lines[i].isLocked]
            ELSE document.lines[i]]]

\* ------------------------------------------------------------------------
\* Strings
\* ------------------------------------------------------------------------
\* the characters of the strings the model uses; any other string is one character
Chars(s) ==
    CASE s = "" -> <<>>
      [] s = "  " -> <<" ", " ">>
      [] s = "a b" -> <<"a", " ", "b">>
      [] s = "an" -> <<"a", "n">>
      [] s = "AN" -> <<"A", "N">>
      [] s = "cab" -> <<"c", "a", "b">>
      [] s = "apple" -> <<"a", "p", "p", "l", "e">>
      [] s = "Banana" -> <<"B", "a", "n", "a", "n", "a">>
      [] OTHER -> <<s>>

\* one character of String.prototype.toLowerCase
LowerChar(c) ==
    CASE c = "A" -> "a"
      [] c = "B" -> "b"
      [] c = "C" -> "c"
      [] c = "N" -> "n"
      [] c = "X" -> "x"
      [] OTHER -> c

\* s.toLowerCase(), on characters
ToLowerCase(chars) == [i \in 1..Len(chars) |-> LowerChar(chars[i])]

\* hay.includes(needle), on characters
Includes(hay, needle) ==
    \E i \in 0..(Len(hay) - Len(needle)) : SubSeq(hay, i + 1, i + Len(needle)) = needle

\* s.trim(), on characters
Trim(chars) ==
    LET inked == {i \in 1..Len(chars) : chars[i] # " "}
    IN  IF inked = {}
        THEN <<>>
        ELSE SubSeq(chars, CHOOSE i \in inked : \A j \in inked : i <= j,
                           CHOOSE i \in inked : \A j \in inked : i >= j)

\* Math.min
MathMin(a, b) == IF a < b THEN a ELSE b

\* array.slice(0, end): a negative end counts from the back
Slice(seq, end) ==
    LET stop == IF end < 0
                THEN (IF Len(seq) + end < 0 THEN 0 ELSE Len(seq) + end)
                ELSE MathMin(end, Len(seq))
    IN  SubSeq(seq, 1, stop)

\* ------------------------------------------------------------------------
\* executeDocSearch
\* ------------------------------------------------------------------------
\* limit: number = 5
DefaultLimit == 5

\* Math.min(limit, 20)
LimitCap == 20

\* the limit the function body sees: the default stands in for an omitted argument
LimitOf(args) == IF "limit" \in DOMAIN args THEN args.limit ELSE DefaultLimit

\* the empty-query test without the trim
BlankQueryUntrimmed(query) == Chars(query) = <<>>

\* !query || query.trim().length === 0
BlankQuery(query) == Falsy(query) \/ Len(Trim(Chars(query))) = 0

\* exactMatch ? 1.0 : 0.5, in tenths
Score(exactMatch) == IF exactMatch THEN 10 ELSE 5

\* the loop over document.lines: one SearchResult per line that includes the query
RECURSIVE SearchFrom(_, _, _)
SearchFrom(lines, i, queryLower) ==
    IF i > Len(lines)
    THEN <<>>
    ELSE LET line == lines[i]
             textLower == ToLowerCase(Chars(line.text))
         IN  IF Includes(textLower, queryLower)
             THEN << [ lineNumber |-> line.lineNumber, text |-> line.text,
                       score |-> Score(textLower = queryLower) ] >>
                  \o SearchFrom(lines, i + 1, queryLower)
             ELSE SearchFrom(lines, i + 1, queryLower)

\* the sort leaving the hits in document order
SortByScoreSkipped(results) == results

\* results.sort((a, b) => b.score - a.score): stable, higher score first
RECURSIVE SortByScore(_)
SortByScore(results) ==
    IF Len(results) <= 1
    THEN results
    ELSE LET sorted == SortByScore(SubSeq(results, 1, Len(results) - 1))
             r == results[Len(results)]
             ahead == Cardinality({i \in 1..Len(sorted) : sorted[i].score >= r.score})
         IN  SubSeq(sorted, 1, ahead) \o <<r>> \o SubSeq(sorted, ahead + 1, Len(sorted))

\* executeDocSearch(query, document, limit)
ExecuteDocSearch(query, document, limit) ==
    IF BlankQuery(query)
    THEN <<>>
    ELSE Slice(SortByScore(SearchFrom(document.lines, 1, ToLowerCase(Chars(query)))),
               MathMin(limit, LimitCap))

\* ------------------------------------------------------------------------
\* executeDocRead
\* ------------------------------------------------------------------------
\* the loop over lineNumbers, from entry k on: the lines found, in the order asked
RECURSIVE ReadFrom(_, _, _)
ReadFrom(lineNumbers, k, document) ==
    IF k > Len(lineNumbers)
    THEN <<>>
    ELSE LET i == FindIndex(document.lines, lineNumbers[k])
         IN  (IF i # 0 THEN <<document.lines[i]>> ELSE <<>>)
             \o ReadFrom(lineNumbers, k + 1, document)

\* a read that reports failure when it found nothing
ExecuteDocReadStrict(lineNumbers, document) ==
    LET found == SelectSeq(lineNumbers, LAMBDA n :
                     \E i \in 1..Len(document.lines) : document.lines[i].lineNumber = n)
    IN  IF Len(found) = 0
        THEN [success |-> FALSE, lines |-> <<>>, error |-> "No line numbers provided"]
        ELSE [ success |-> TRUE,
               lines |-> [k \in 1..Len(found) |->
                            document.lines[CHOOSE i \in 1..Len(document.lines) :
                                               document.lines[i].lineNumber = found[k]]],
               error |-> Undefined ]

\* executeDocRead(lineNumbers, document)
ExecuteDocRead(lineNumbers, document) ==
    IF Len(lineNumbers) = 0
    THEN [success |-> FALSE, lines |-> <<>>, error |-> "No line numbers provided"]
    ELSE [success |-> TRUE, lines |-> ReadFrom(lineNumbers, 1, document), error |-> Undefined]

\* ------------------------------------------------------------------------
\* State
\* ------------------------------------------------------------------------
\* document: the Document the tools and the page work on
\* last: the most recent operation; for a doc_edit call the arguments passed,
\*       the document as it was when the call was made and the value returned
VARIABLES document, last

vars == <<document, last>>

Init ==
    /\ \E n \in 0..Len(IngestedLines) : document = IngestedDocument(n)
    /\ last = [kind |-> "upload"]

\* one executeDocEdit call, as the chat route makes it for a doc_edit function call
DocEdit ==
    /\ last.kind # "edit"
    /\ \E operation \in Operations, lines \in TargetLists, newText \in NewTexts :
        LET params == [operation |-> operation, lines |-> lines, newText |-> newText]
            out == ExecuteDocEdit(params, document)
        IN  /\ Len(out.document.lines) <= MaxLines
            /\ document' = out.document
            /\ last' = [kind |-> "edit", before |-> document, params |-> params,
                        result |-> out.result]

\* the route pushes the call's Action and goes on to the next function call
PushAction ==
    /\ last.kind = "edit"
    /\ last' = [kind |-> "action", success |-> last.result.success]
    /\ UNCHANGED document

\* the user clicks the lock button of a displayed line
LineToggleLock ==
    /\ last.kind # "edit"
    /\ \E i \in 1..Len(document.lines) :
        /\ document' = ToggleLock(document, document.lines[i])
        /\ last' = [kind |-> "toggle"]

Next == DocEdit \/ PushAction \/ LineToggleLock

Spec == Init /\ [][Next]_vars

\* ------------------------------------------------------------------------
\* The read-only tools: doc_search and doc_read on an unchanging document
\* ------------------------------------------------------------------------
\* longest document the lookups run on
MaxSearchLines == 22

\* the texts a document repeats, line after line
LookupPatterns ==
    { <<"apple", "Banana", "cab">>, <<"b">>, <<"Banana", "B">>, <<"a b", "cab", "b">> }

\* a parsed document of n lines whose texts run through a pattern
LookupDocument(n, pattern) ==
    [ id |-> "doc",
      lines |-> [i \in 1..n |->
                    Line(Num(i), pattern[((i - 1) % Len(pattern)) + 1], (i + 1) \div 2,
                         FALSE, FALSE)],
      metadata |-> [totalLines |-> n, totalPages |-> (n + 1) \div 2, format |-> "markdown"] ]

\* args.query of a doc_search call
Queries == {"b", "B", "an", "AN", "apple", "z", "", " ", "  "}

\* args.limit of a doc_search call, when given
SearchLimits == {-1, 0, 1, 3, DefaultLimit, DefaultLimit + 1, LimitCap, LimitCap + 1}

\* args of a doc_search call: limit is optional
SearchArgs == [query : Queries] \cup [query : Queries, limit : SearchLimits]

LookupInit ==
    /\ \E n \in 0..MaxSearchLines, pattern \in LookupPatterns :
          document = LookupDocument(n, pattern)
    /\ last = [kind |-> "upload"]

\* one executeDocSearch call, as the chat route makes it for a doc_search function call
DocSearch ==
    /\ last.kind \notin {"search", "read"}
    /\ \E args \in SearchArgs :
          last' = [ kind |-> "search", args |-> args,
                    results |-> ExecuteDocSearch(args.query, document, LimitOf(args)) ]
    /\ UNCHANGED document

\* one executeDocRead call, as the chat route makes it for a doc_read function call
DocRead ==
    /\ last.kind \notin {"search", "read"}
    /\ \E lineNumbers \in TargetLists :
          last' = [ kind |-> "read", lineNumbers |-> lineNumbers,
                    result |-> ExecuteDocRead(lineNumbers, document) ]
    /\ UNCHANGED document

\* the route pushes the lookup's Action and goes on to the next function call
PushLookupAction ==
    /\ last.kind \in {"search", "read"}
    /\ last' = [ kind |-> "action",
                 success |-> IF last.kind = "read" THEN last.result.success ELSE TRUE ]
    /\ UNCHANGED document

LookupNext == DocSearch \/ DocRead \/ PushLookupAction

SpecLookup == LookupInit /\ [][LookupNext]_vars

\* ------------------------------------------------------------------------
\* POST /api/chat: the loop over the model's function calls
\* ------------------------------------------------------------------------
\* most function calls in one model response
MaxCalls == 2

\* function-call arguments arrive as untyped JSON: a value carries its type
JsUndefined == [type |-> "undefined"]
JsString(s) == [type |-> "string", value |-> s]
JsNumber(n) == [type |-> "number", value |-> n]
JsArray(items) == [type |-> "array", items |-> items]

\* an args object; a property the model left out reads as undefined
JsArgs(operation, lines, newText, query, limit) ==
    [ type |-> "object", operation |-> operation, lines |-> lines, newText |-> newText,
      query |-> query, limit |-> limit ]

\* args of a doc_edit call
EditArgs(operation, lines, newText) == JsArgs(operation, lines, newText, JsUndefined, JsUndefined)

\* args of a doc_read call
ReadArgs(lines) == JsArgs(JsUndefined, lines, JsUndefined, JsUndefined, JsUndefined)

\* args of a doc_search call
QueryArgs(query, limit) == JsArgs(JsUndefined, JsUndefined, JsUndefined, query, limit)

\* a string-or-undefined property as the typed code reads it
StringOf(v) == IF v.type = "string" THEN v.value ELSE Undefined

\* the function calls a model response can carry
FunctionCallSet ==
    { [name |-> "doc_edit", args |-> EditArgs(JsString("delete"), JsArray(<<Num(1)>>), JsUndefined)],
      [name |-> "doc_edit", args |-> EditArgs(JsString("replace"), JsArray(<<Num(1)>>), JsString("X"))],
      [name |-> "doc_edit", args |-> EditArgs(JsString("insert"), JsArray(<<Num(2)>>), JsString("X"))],
      [name |-> "doc_edit", args |-> EditArgs(JsString("replace"), JsArray(<<Num(1)>>), JsUndefined)],
      [name |-> "doc_edit", args |-> EditArgs(JsString("move"), JsArray(<<Num(1)>>), JsString("X"))],
      [name |-> "doc_edit", args |-> EditArgs(JsString("delete"), JsUndefined, JsUndefined)],
      [name |-> "doc_edit", args |-> EditArgs(JsString("delete"), JsNumber(Num(1)), JsUndefined)],
      [name |-> "doc_edit", args |-> JsUndefined],
      [name |-> "doc_read", args |-> ReadArgs(JsArray(<<Num(1)>>))],
      [name |-> "doc_read", args |-> ReadArgs(JsArray(<<Num(2), Num(1)>>))],
      [name |-> "doc_read", args |-> ReadArgs(JsUndefined)],
      [name |-> "doc_search", args |-> QueryArgs(JsString("A"), JsUndefined)],
      [name |-> "doc_search", args |-> QueryArgs(JsNumber(7), JsUndefined)],
      [name |-> "doc_format", args |-> ReadArgs(JsArray(<<Num(1)>>))] }

\* response.functionCalls
FunctionCallLists == UNION {[1..k -> FunctionCallSet] : k \in 1..MaxCalls}

\* the catch block of a tool: the TypeError became a returned value
Caught == "TypeError"

\* executeDocEdit on untyped args: reading params.lines.join throws inside the
\* try when params or params.lines is undefined or lines is no array
ExecuteDocEditJs(args, doc) ==
    IF args.type = "undefined" \/ args.lines.type # "array"
    THEN [document |-> doc, result |-> Failure(Caught)]
    ELSE ExecuteDocEdit([ operation |-> StringOf(args.operation), lines |-> args.lines.items,
                          newText |-> StringOf(args.newText) ], doc)

\* executeDocRead on untyped lineNumbers: lineNumbers.join throws inside the try
ExecuteDocReadJs(lineNumbers, doc) ==
    IF lineNumbers.type # "array"
    THEN [success |-> FALSE, lines |-> <<>>, error |-> Caught]
    ELSE ExecuteDocRead(lineNumbers.items, doc)

\* executeDocSearch on an untyped query: undefined and 0 are falsy, any other
\* number has no trim method and the TypeError is caught
ExecuteDocSearchJs(query, doc, limit) ==
    IF query.type # "string"
    THEN <<>>
    ELSE ExecuteDocSearch(query.value, doc,
                          IF limit.type = "number" THEN limit.value ELSE DefaultLimit)

\* formatToolResult(toolName, result): the line that heads the text, and what it lists
FormatToolResult(toolName, result) ==
    CASE toolName = "doc_search" ->
            IF Len(result) > 0
            THEN [head |-> "Search results:", body |-> result]
            ELSE [head |-> "No results found", body |-> <<>>]
      [] toolName = "doc_read" ->
            IF result.success
            THEN [head |-> "Lines read:", body |-> result.lines]
            ELSE [head |-> "Error:", body |-> <<result.error>>]
      [] toolName = "doc_edit" ->
            IF result.success
            THEN [head |-> "Successfully edited lines:", body |-> result.modifiedLines]
            ELSE [head |-> "Edit failed:", body |-> <<result.error>>]
      [] OTHER -> [head |-> "JSON", body |-> <<result>>]

\* a TypeError thrown in the route itself, on reading a property of undefined
\* args, after the tool named was or was not invoked
Threw(invoked, doc) ==
    [ threw |-> TRUE, invoked |-> invoked, document |-> doc,
      result |-> [error |-> Caught], actions |-> <<>> ]

\* case 'doc_search' once executeDocSearch has returned result
SearchCase(args, doc, result) ==
    [ threw |-> FALSE, invoked |-> "executeDocSearch", document |-> doc, result |-> result,
      actions |-> <<[ type |-> "search", success |-> TRUE,
                      details |-> [query |-> args.query, results |-> Len(result)] ]>> ]

\* case 'doc_read' once executeDocRead has returned result
ReadCase(args, doc, result) ==
    [ threw |-> FALSE, invoked |-> "executeDocRead", document |-> doc, result |-> result,
      actions |-> <<[ type |-> "read", success |-> result.success,
                      details |-> [lines |-> args.lines, found |-> Len(result.lines)] ]>> ]

\* case 'doc_edit' once executeDocEdit has returned out.result and left out.document
EditCase(args, out) ==
    IF args.type = "undefined"
    THEN Threw("executeDocEdit", out.document)
    ELSE [ threw |-> FALSE, invoked |-> "executeDocEdit",
           document |-> out.document, result |-> out.result,
           actions |-> <<[ type |-> "edit", success |-> out.result.success,
                           details |-> [ operation |-> args.operation,
                                         lines |-> args.lines,
                                         modified |-> Len(out.result.modifiedLines) ] ]>> ]

\* the switch over the tool name, inside the loop's try: the tool invoked (if
\* any), the document it leaves, the result, the Action pushed, and whether a
\* TypeError was thrown in the route itself
SwitchTool(call, doc) ==
    CASE call.name = "doc_search" ->
            IF call.args.type = "undefined"
            THEN Threw("none", doc)
            ELSE SearchCase(call.args, doc,
                            ExecuteDocSearchJs(call.args.query, doc, call.args.limit))
      [] call.name = "doc_read" ->
            IF call.args.type = "undefined"
            THEN Threw("none", doc)
            ELSE ReadCase(call.args, doc, ExecuteDocReadJs(call.args.lines, doc))
      [] call.name = "doc_edit" -> EditCase(call.args, ExecuteDocEditJs(call.args, doc))
      [] OTHER ->
            [ threw |-> FALSE, invoked |-> "none", document |-> doc,
              result |-> [error |-> "Unknown tool"], actions |-> <<>> ]

\* name.replace('doc_', '')
StripDocPrefix(name) ==
    CASE name = "doc_search" -> "search"
      [] name = "doc_read" -> "read"
      [] name = "doc_edit" -> "edit"
      [] name = "doc_format" -> "format"
      [] OTHER -> name

\* the end of the try block, or the catch block, once the switch has come to
\* out: the text pushed to toolResults and, after a throw, the failed Action
TryCatch(call, out) ==
    IF out.threw
    THEN [ raised |-> FALSE, invoked |-> out.invoked, document |-> out.document,
           result |-> out.result,
           actions |-> <<[ type |-> StripDocPrefix(call.name), success |-> FALSE,
                           details |-> [error |-> Caught] ]>>,
           toolResults |-> <<[head |-> "Error executing", body |-> <<Caught>>]>> ]
    ELSE [ raised |-> FALSE, invoked |-> out.invoked, document |-> out.document,
           result |-> out.result, actions |-> out.actions,
           toolResults |-> <<FormatToolResult(call.name, out.result)>> ]

\* a loop body without its catch: the TypeError leaves the loop
HandleCallUncaught(call, doc) ==
    [TryCatch(call, SwitchTool(call, doc)) EXCEPT
        !.raised = SwitchTool(call, doc).threw,
        !.toolResults = IF SwitchTool(call, doc).threw THEN <<>> ELSE @,
        !.actions = IF SwitchTool(call, doc).threw THEN <<>> ELSE @]

\* one pass of the loop body: the try around the switch and formatToolResult,
\* and the catch that turns a throw into a failed Action and an error text
HandleCall(call, doc) == TryCatch(call, SwitchTool(call, doc))

\* every call working on the document as the request delivered it
ToolDocumentAsReceived(received, current) == received

\* the document the tools are handed: the one object parsed from the request
\* body, as the calls before left it
ToolDocument(received, current) == current

\* the messages a user sends; a token the citation grammar knows starts with @
Messages == {"hi", "@line1", "@l2-3 @p2"}

\* interface Citation
Citation(type, reference, lineNumbers, resolvedContent) ==
    [ type |-> type, reference |-> reference, lineNumbers |-> lineNumbers,
      resolvedContent |-> resolvedContent ]

\* parseCitations(message): the tokens in order of appearance, unresolved
ParseCitations(message) ==
    CASE message = "@line1" -> <<Citation("line", "@line1", <<Num(1)>>, <<>>)>>
      [] message = "@l2-3 @p2" -> << Citation("range", "@l2-3", <<Num(2), Num(3)>>, <<>>),
                                     Citation("page", "@p2", <<>>, <<>>) >>
      [] OTHER -> <<>>

\* the page a page citation asks for
PageOf(reference) == IF reference = "@p2" THEN 2 ELSE 0

\* resolveCitations(citations, document): each citation with the numbers that
\* name a line (for a page: the lines of that page) and "Line n: text" for
\* each, in ascending order; a citation that resolves to nothing is kept
ResolveCitations(citations, doc) ==
    [ i \in 1..Len(citations) |->
        LET c == citations[i]
            cited(line) == IF c.type = "page"
                           THEN line.pageNumber = PageOf(c.reference)
                           ELSE line.lineNumber \in SetOf(c.lineNumbers)
            found == SelectSeq(doc.lines, cited)
        IN  Citation(c.type, c.reference,
                     [k \in 1..Len(found) |-> found[k].lineNumber],
                     [k \in 1..Len(found) |-> <<found[k].lineNumber, found[k].text>>]) ]

\* a JSON object with one more property, left out when its value is undefined
WithProperty(object, name, defined, value) ==
    IF defined
    THEN [f \in DOMAIN object \cup {name} |-> IF f = name THEN value ELSE object[f]]
    ELSE object

\* actions.some(a => a.type === 'edit' && a.success)
SomeEditSucceeded(actions) ==
    \E i \in 1..Len(actions) : actions[i].type = "edit" /\ actions[i].success

\* a response that carries the document whenever an edit was tried
ChatResponseOnAnyEdit(responseText, resolvedCitations, actions, doc) ==
    [ status |-> 200,
      body |-> WithProperty(
                 WithProperty(
                   WithProperty([success |-> TRUE, message |-> responseText],
                                "citations", Len(resolvedCitations) > 0, resolvedCitations),
                   "actions", Len(actions) > 0, actions),
                 "document", \E i \in 1..Len(actions) : actions[i].type = "edit", doc) ]

\* a response whose citations are resolved when it is built
ChatResponseCitesLate(responseText, resolvedCitations, actions, doc) ==
    LET late == ResolveCitations(resolvedCitations, doc)
    IN  [ status |-> 200,
          body |-> WithProperty(
                     WithProperty(
                       WithProperty([success |-> TRUE, message |-> responseText],
                                    "citations", Len(late) > 0, late),
                       "actions", Len(actions) > 0, actions),
                     "document", SomeEditSucceeded(actions), doc) ]

\* the NextResponse.json of a request that went through
ChatResponse(responseText, resolvedCitations, actions, doc) ==
    [ status |-> 200,
      body |-> WithProperty(
                 WithProperty(
                   WithProperty([success |-> TRUE, message |-> responseText],
                                "citations", Len(resolvedCitations) > 0, resolvedCitations),
                   "actions", Len(actions) > 0, actions),
                 "document", SomeEditSucceeded(actions), doc) ]

\* the NextResponse.json of an early return or of a catch block
ErrorResponse(status, error) == [status |-> status, body |-> [error |-> error]]

\* responseText after a model call with no function calls
TextOf(text) == IF Falsy(text) THEN "I received your message but could not generate a response."
                ELSE text

\* responseText after the final model call
FinalTextOf(text) == IF Falsy(text) THEN "I executed the requested operations." ELSE text

\* the text of a model answer: some text, the empty string, or none
ModelTexts == {"T", "", Undefined}

\* the documents a request carries: an ingested one, its first line locked or not
RequestDocuments ==
    {IngestedDocument(n) : n \in 0..Len(IngestedLines)}
    \cup {ToggleLock(IngestedDocument(n), IngestedLines[1]) : n \in 1..Len(IngestedLines)}

\* the request is parsed and validated, its citations are resolved and the
\* prompt is built; the route waits for the first model call
ChatInit ==
    /\ document \in RequestDocuments
    /\ \E message \in Messages :
          last = [ kind |-> "request", message |-> message,
                   resolvedCitations |-> ResolveCitations(ParseCitations(message), document) ]

\* the first chatWithHistory call returns function calls
FunctionCalls ==
    /\ last.kind = "request"
    /\ \E calls \in FunctionCallLists :
          last' = [ kind |-> "dispatch", received |-> document, functionCalls |-> calls,
                    done |-> 0, invoked |-> <<>>, results |-> <<>>, actions |-> <<>>,
                    toolResults |-> <<>>, raised |-> FALSE,
                    message |-> last.message, resolvedCitations |-> last.resolvedCitations ]
    /\ UNCHANGED document

\* one pass of the for loop over response.functionCalls
Dispatch ==
    /\ last.kind = "dispatch"
    /\ ~last.raised
    /\ last.done < Len(last.functionCalls)
    /\ LET call == last.functionCalls[last.done + 1]
           out == HandleCall(call, ToolDocument(last.received, document))
       IN  /\ document' = out.document
           /\ last' = [ last EXCEPT !.done = @ + 1,
                                    !.invoked = Append(@, out.invoked),
                                    !.results = Append(@, out.result),
                                    !.actions = @ \o out.actions,
                                    !.toolResults = @ \o out.toolResults,
                                    !.raised = out.raised ]

\* the first chatWithHistory call returns no function call, or throws: the
\* route answers with the text, or with status 500
NoFunctionCalls ==
    /\ last.kind = "request"
    /\ \E failed \in BOOLEAN, text \in ModelTexts :
          last' = [ kind |-> "response", received |-> document, functionCalls |-> <<>>,
                    results |-> <<>>, actions |-> <<>>,
                    message |-> last.message, resolvedCitations |-> last.resolvedCitations,
                    response |-> IF failed
                                 THEN ErrorResponse(500, "Failed to generate response")
                                 ELSE ChatResponse(TextOf(text), last.resolvedCitations,
                                                   <<>>, document) ]
    /\ UNCHANGED document

\* the loop is over: the final chatWithHistory call returns or throws, and the
\* route answers
Respond ==
    /\ last.kind = "dispatch"
    /\ ~last.raised
    /\ last.done = Len(last.functionCalls)
    /\ \E failed \in BOOLEAN, text \in ModelTexts :
          last' = [ kind |-> "response", received |-> last.received,
                    functionCalls |-> last.functionCalls,
                    results |-> last.results, actions |-> last.actions,
                    message |-> last.message, resolvedCitations |-> last.resolvedCitations,
                    response |-> IF failed
                                 THEN ErrorResponse(500, "Failed to generate response")
                                 ELSE ChatResponse(FinalTextOf(text), last.resolvedCitations,
                                                   last.actions, document) ]
    /\ UNCHANGED document

ChatNext == FunctionCalls \/ Dispatch \/ NoFunctionCalls \/ Respond

SpecChat == ChatInit /\ [][ChatNext]_vars

\* ------------------------------------------------------------------------
\* generateWithRetry
\* ------------------------------------------------------------------------
MAX_RETRIES == 3

\* ms
RETRY_DELAY == 1000

\* what one model.generateContent call can come to: a response whose text() is
\* some text or the empty string, a thrown Error, or a thrown value that is no Error
GenerateOutcomes ==
    { [kind |-> "text", text |-> "T1"], [kind |-> "text", text |-> "T2"],
      [kind |-> "text", text |-> ""],
      [kind |-> "throw", message |-> "E1"], [kind |-> "throw", message |-> "E2"],
      [kind |-> "throwValue"] }

\* the message of the Error the catch block keeps in lastError
CaughtMessage(outcome) ==
    CASE outcome.kind = "text" -> "Empty response from Gemini"
      [] outcome.kind = "throw" -> outcome.message
      [] OTHER -> "Unknown error"

\* if (!text) throw: the attempt ends in the catch block
AttemptFails(outcome) == outcome.kind # "text" \/ Falsy(outcome.text)

\* every failed attempt waits the same time
RetryDelayFlat(attempt) == RETRY_DELAY

\* const delay = RETRY_DELAY * attempt
RetryDelay(attempt) == RETRY_DELAY * attempt

\* the call starts: attempt = 1, lastError = null, nothing asked of the model yet
RetryInit ==
    /\ document = IngestedDocument(0)
    /\ last = [ kind |-> "retry", pc |-> "generate", attempt |-> 1, outcomes |-> <<>>,
                waits |-> <<>>, lastError |-> "null", status |-> "running",
                value |-> Undefined ]

\* one pass of the loop up to its next await: the model call settles, the text
\* is returned or the failure is caught, and either the timer is started, or
\* (after the last attempt) the loop ends and the function throws
GenerateContent ==
    /\ last.kind = "retry" /\ last.status = "running" /\ last.pc = "generate"
    /\ last.attempt <= MAX_RETRIES
    /\ \E outcome \in GenerateOutcomes :
          LET tried == [last EXCEPT !.outcomes = Append(@, outcome)]
          IN  last' =
                IF ~AttemptFails(outcome)
                THEN [tried EXCEPT !.status = "returned", !.value = outcome.text]
                ELSE IF last.attempt < MAX_RETRIES
                THEN [tried EXCEPT !.lastError = CaughtMessage(outcome),
                                   !.waits = Append(@, RetryDelay(last.attempt)),
                                   !.pc = "timer"]
                ELSE [tried EXCEPT !.lastError = CaughtMessage(outcome),
                                   !.attempt = @ + 1,
                                   !.status = "thrown",
                                   !.value = CaughtMessage(outcome)]
    /\ UNCHANGED document

\* the setTimeout fires and the loop goes to its next attempt
RetryTimer ==
    /\ last.kind = "retry" /\ last.status = "running" /\ last.pc = "timer"
    /\ last' = [last EXCEPT !.pc = "generate", !.attempt = @ + 1]
    /\ UNCHANGED document

RetryNext == GenerateContent \/ RetryTimer

SpecRetry == RetryInit /\ [][RetryNext]_vars

\* ------------------------------------------------------------------------
\* The page: the client's document state, one chat request and its response
\* ------------------------------------------------------------------------
\* most chat requests sent in one session
MaxSends == 2

\* most clicks on lock buttons in one session
MaxClicks == 2

\* most function calls in the model response of a request sent by the page
MaxTurnCalls == 1

\* what the user has typed when the form is submitted
Inputs == {"hi", "  "}

\* handleAutoLock: every line locked unless it is a placeholder
AutoLock(doc) ==
    [doc EXCEPT !.lines =
        [i \in 1..Len(doc.lines) |->
            [doc.lines[i] EXCEPT !.isLocked = ~doc.lines[i].isPlaceholder]]]

\* a form that looks at the input only
SubmitBlockedOnBlankOnly(input, isLoading) == Len(Trim(Chars(input))) = 0

\* handleSubmit: if (!input.trim() || isLoading) return
SubmitBlocked(input, isLoading) == Len(Trim(Chars(input))) = 0 \/ isLoading

\* !message || message.trim().length === 0
BlankMessage(message) == Falsy(message) \/ Len(Trim(Chars(message))) = 0

\* the for loop over response.functionCalls, from call k on: the document the
\* calls leave and the Actions they push
RECURSIVE RunCalls(_, _, _, _)
RunCalls(calls, k, doc, actions) ==
    IF k > Len(calls)
    THEN [document |-> doc, actions |-> actions]
    ELSE RunCalls(calls, k + 1, HandleCall(calls[k], doc).document,
                  actions \o HandleCall(calls[k], doc).actions)

\* the first chatWithHistory call of a request: it throws, or returns text, or
\* returns function calls
FirstAnswers ==
    [failed : {TRUE}, text : {Undefined}, functionCalls : {<<>>}]
    \cup [failed : {FALSE}, text : ModelTexts, functionCalls : {<<>>}]
    \cup [ failed : {FALSE}, text : {Undefined},
           functionCalls : UNION {[1..k -> FunctionCallSet] : k \in 1..MaxTurnCalls} ]

\* the final chatWithHistory call: it throws or returns text
FinalAnswers == [failed : {TRUE}, text : {Undefined}] \cup [failed : {FALSE}, text : ModelTexts]

\* the final call when the route never comes to it
NotAsked == [failed : {FALSE}, text : {Undefined}]

\* what the model does during one request: whether GEMINI_API_KEY is set, the
\* first chatWithHistory call and, after function calls, the final one
ModelBehaviours ==
    [apiKey : {FALSE}, first : {CHOOSE a \in FirstAnswers : a.failed}, final : NotAsked]
    \cup [apiKey : {TRUE}, first : {a \in FirstAnswers : Len(a.functionCalls) = 0},
          final : NotAsked]
    \cup [apiKey : {TRUE}, first : {a \in FirstAnswers : Len(a.functionCalls) > 0},
          final : FinalAnswers]

\* the route from the end of the loop on: the final model call and the answer,
\* ran being the document and the Actions the loop left
AfterCalls(model, resolvedCitations, ran) ==
    IF model.final.failed
    THEN [ response |-> ErrorResponse(500, "Failed to generate response"),
           served |-> ran.document ]
    ELSE [ response |-> ChatResponse(FinalTextOf(model.final.text), resolvedCitations,
                                     ran.actions, ran.document),
           served |-> ran.document ]

\* the route from the first model call on
AfterValidation(body, model, resolvedCitations) ==
    IF model.first.failed
    THEN [ response |-> ErrorResponse(500, "Failed to generate response"),
           served |-> body.document ]
    ELSE IF Len(model.first.functionCalls) = 0
    THEN [ response |-> ChatResponse(TextOf(model.first.text), resolvedCitations,
                                     <<>>, body.document),
           served |-> body.document ]
    ELSE AfterCalls(model, resolvedCitations,
                    RunCalls(model.first.functionCalls, 1, body.document, <<>>))

\* POST /api/chat from the request body to the response, and with it the
\* document object of the request as the route leaves it
PostChat(body, model) ==
    IF BlankMessage(body.message)
    THEN [response |-> ErrorResponse(400, "Message is required"), served |-> body.document]
    ELSE IF "document" \notin DOMAIN body
    THEN [response |-> ErrorResponse(400, "Document is required"), served |-> body]
    ELSE IF ~model.apiKey
    THEN [ response |-> ErrorResponse(500, "Gemini API key not configured"),
           served |-> body.document ]
    ELSE AfterValidation(body, model,
                         ResolveCitations(ParseCitations(body.message), body.document))

\* the request as the page holds it once the route has answered
AnsweredRequest(request, out) ==
    [ state |-> "answered", body |-> request.body, response |-> out.response,
      served |-> out.served ]

\* !response.ok || data.error
ResponseFailed(response) == response.status # 200 \/ "error" \in DOMAIN response.body

\* a page that takes the text of the answer and keeps its own lock flags
SetDocumentKeepingLocks(current, data) ==
    [ data.document EXCEPT !.lines =
        [ i \in 1..Len(data.document.lines) |->
            IF i <= Len(current.lines)
            THEN [data.document.lines[i] EXCEPT !.isLocked = current.lines[i].isLocked]
            ELSE data.document.lines[i] ] ]

\* setDocument(data.document)
SetDocument(current, data) == data.document

\* a page that goes back to the document it sent when the request fails
DocumentRolledBack(current, sent) == sent

\* the catch block: setError only, the document state stays
DocumentAfterError(current, sent) == current

\* oldLine?.text || ''
TextAt(doc, lineNum) ==
    LET index == FindIndex(doc.lines, lineNum)
    IN  IF index = 0 THEN "" ELSE OrEmpty(doc.lines[index].text)

\* the filter and flatMap over data.actions, from action i on: one edit for
\* each entry of details.modifiedLines of a successful edit Action that has one
RECURSIVE TrackedEdits(_, _, _, _)
TrackedEdits(actions, i, old, new) ==
    IF i > Len(actions) THEN <<>>
    ELSE LET action == actions[i]
             tracked == /\ action.type = "edit" /\ action.success
                        /\ "modifiedLines" \in DOMAIN action.details
             edits == [ k \in 1..Len(action.details.modifiedLines) |->
                          [ lineNumber |-> action.details.modifiedLines[k],
                            originalText |-> TextAt(old, action.details.modifiedLines[k]),
                            newText |-> TextAt(new, action.details.modifiedLines[k]),
                            operation |-> action.details.operation ] ]
         IN  (IF tracked THEN edits ELSE <<>>) \o TrackedEdits(actions, i + 1, old, new)

\* a document has been uploaded: it is shown and saved, the edit history is
\* empty, a chat exists and nothing is loading
PageInit ==
    /\ \E n \in 0..Len(IngestedLines) : document = IngestedDocument(n)
    /\ last = [ kind |-> "page", isLoading |-> FALSE, error |-> "null", requests |-> <<>>,
                stored |-> document, editHistory |-> <<>>, sends |-> 0, clicks |-> 0,
                event |-> [op |-> "upload"] ]

\* the chat form is submitted: handleSubmit, and handleSendMessage up to its fetch
HandleSubmit ==
    /\ last.kind = "page"
    /\ \E input \in Inputs :
          IF SubmitBlocked(input, last.isLoading)
          THEN last' = [last EXCEPT !.event = [ op |-> "blocked", input |-> input,
                                                isLoading |-> last.isLoading ]]
          ELSE /\ last.sends < MaxSends
               /\ last' = [ last EXCEPT
                              !.isLoading = TRUE,
                              !.error = "null",
                              !.sends = @ + 1,
                              !.requests = Append(@, [ state |-> "sent",
                                                       body |-> [ message |-> input,
                                                                  document |-> document ] ]),
                              !.event = [op |-> "send"] ]
    /\ UNCHANGED document

\* the route handles a request and its response is on the way back
ServeChat ==
    /\ last.kind = "page"
    /\ \E i \in 1..Len(last.requests), model \in ModelBehaviours :
          /\ last.requests[i].state = "sent"
          /\ last' = [ last EXCEPT
                          !.requests[i] = AnsweredRequest(last.requests[i],
                                                          PostChat(last.requests[i].body, model)),
                          !.event = [op |-> "served"] ]
    /\ UNCHANGED document

\* handleSendMessage from the answer of its fetch to the end of its finally block
HandleResponse ==
    /\ last.kind = "page"
    /\ \E i \in 1..Len(last.requests) :
          /\ last.requests[i].state = "answered"
          /\ LET request == last.requests[i]
                 data == request.response.body
                 others == SubSeq(last.requests, 1, i - 1)
                           \o SubSeq(last.requests, i + 1, Len(last.requests))
                 event == [ op |-> "response", before |-> document, stored |-> last.stored,
                            editHistory |-> last.editHistory, request |-> request ]
             IN  IF ResponseFailed(request.response)
                 THEN /\ document' = DocumentAfterError(document, request.body.document)
                      /\ last' = [ last EXCEPT !.isLoading = FALSE,
                                               !.error = data.error,
                                               !.requests = others,
                                               !.event = event ]
                 ELSE IF "document" \in DOMAIN data
                 THEN LET newEdits == IF "actions" \in DOMAIN data
                                      THEN TrackedEdits(data.actions, 1, request.body.document,
                                                        data.document)
                                      ELSE <<>>
                      IN  /\ document' = SetDocument(document, data)
                          /\ last' = [ last EXCEPT !.isLoading = FALSE,
                                                   !.stored = SetDocument(document, data),
                                                   !.editHistory = @ \o newEdits,
                                                   !.requests = others,
                                                   !.event = event ]
                 ELSE /\ UNCHANGED document
                      /\ last' = [ last EXCEPT !.isLoading = FALSE,
                                               !.requests = others,
                                               !.event = event ]

\* the user clicks the lock button of a displayed line: handleLineToggleLock
HandleLineToggleLock ==
    /\ last.kind = "page"
    /\ last.clicks < MaxClicks
    /\ \E i \in 1..Len(document.lines) :
          /\ document' = ToggleLock(document, document.lines[i])
          /\ last' = [ last EXCEPT !.stored = ToggleLock(document, document.lines[i]),
                                   !.clicks = @ + 1,
                                   !.event = [ op |-> "toggle", before |-> document,
                                               line |-> document.lines[i] ] ]

\* the user asks for the non-placeholder lines to be locked: handleAutoLock
HandleAutoLock ==
    /\ last.kind = "page"
    /\ last.clicks < MaxClicks
    /\ document' = AutoLock(document)
    /\ last' = [ last EXCEPT !.stored = AutoLock(document),
                             !.clicks = @ + 1,
                             !.event = [op |-> "autoLock", before |-> document] ]

PageNext ==
    HandleSubmit \/ ServeChat \/ HandleResponse \/ HandleLineToggleLock \/ HandleAutoLock

SpecPage == PageInit /\ [][PageNext]_vars

\* ------------------------------------------------------------------------
\* Properties of executeDocEdit
\* ------------------------------------------------------------------------
\* the state right after an executeDocEdit call returned
Returned == last.kind = "edit"

\* the numbers named in a list
Named(targets) == {targets[k] : k \in 1..Len(targets)}

\* the numbers of the lines of a document
Existing(doc) == {doc.lines[i].lineNumber : i \in 1..Len(doc.lines)}

\* some entry of params.lines is the number of a locked line of doc
TargetsLocked(params, doc) ==
    \E k \in 1..Len(params.lines) : \E i \in 1..Len(doc.lines) :
        doc.lines[i].lineNumber = params.lines[k] /\ doc.lines[i].isLocked

\* a line without its number
Content(line) ==
    [text |-> line.text, pageNumber |-> line.pageNumber,
     isLocked |-> line.isLocked, isPlaceholder |-> line.isPlaceholder]

\* the lines of a list without their numbers, in order
Contents(lines) == [i \in 1..Len(lines) |-> Content(lines[i])]

\* the texts of a list of lines, in order
Texts(lines) == [i \in 1..Len(lines) |-> lines[i].text]

\* the numbers read in order are 1, 2, ..., M
NumberedFromOne(lines) ==
    \A i \in 1..Len(lines) : IsInteger(lines[i].lineNumber) /\ lines[i].lineNumber = 2 * i

\* C1: after every executeDocEdit call (and between calls) the line numbers of
\* document.lines read in order are exactly 1..M: integers, no gap, no duplicate.
C1_Contiguity == NumberedFromOne(document.lines)

\* C1 witness: an insert that added a line (and so used a temporary number) returned
C1_Witness ==
    /\ Returned /\ last.result.success /\ last.params.operation = "insert"
    /\ Len(document.lines) > Len(last.before.lines)
    /\ Len(last.before.lines) > 1

\* C2: a call that targets at least one locked existing line returns
\* success = false with modifiedLines = [] and leaves the document as it was.
C2_LockAtomicity ==
    (Returned /\ TargetsLocked(last.params, last.before)) =>
        /\ last.result.success = FALSE
        /\ last.result.modifiedLines = <<>>
        /\ document = last.before

\* C2 witness: a delete naming a locked line and an unlocked existing line returned
C2_Witness ==
    /\ Returned /\ last.params.operation = "delete"
    /\ TargetsLocked(last.params, last.before)
    /\ \E i \in 1..Len(last.before.lines) :
          /\ last.before.lines[i].lineNumber \in Named(last.params.lines)
          /\ ~last.before.lines[i].isLocked

\* the locked lines of a list in order, without their numbers
LockedContents(lines) == Contents(SelectSeq(lines, LAMBDA line : line.isLocked))

\* C3: an executeDocEdit call keeps every locked line: the locked lines after
\* the call are the locked lines before it, in the same order, with the same
\* text and pageNumber (only lineNumber may differ).  Holding for each call, it
\* holds over any run of calls with no lock toggle in between.
C3_LockedLinesKept ==
    Returned => LockedContents(document.lines) = LockedContents(last.before.lines)

\* C3 witness: a successful edit moved a locked line to another number
C3_Witness ==
    /\ Returned /\ last.result.success
    /\ \E i \in 1..Len(last.before.lines), j \in 1..Len(document.lines) :
          /\ last.before.lines[i].isLocked /\ document.lines[j].isLocked
          /\ Content(last.before.lines[i]) = Content(document.lines[j])
          /\ i # j
          /\ Len(LockedContents(document.lines)) = 1

\* the calls C4 is about: no lines, replace/insert without newText, unknown operation
FailsValidation(params) ==
    \/ Len(params.lines) = 0
    \/ params.operation \in {"replace", "insert"} /\ params.newText = Undefined
    \/ params.operation \notin {"replace", "insert", "delete"}

\* C4: a call that fails validation returns {success: false, modifiedLines: [],
\* error} and leaves the document as it was.
C4_ValidationNeverMutates ==
    (Returned /\ FailsValidation(last.params)) =>
        /\ last.result.success = FALSE
        /\ last.result.modifiedLines = <<>>
        /\ last.result.error # Undefined
        /\ document = last.before

\* C4 witness: an insert without newText naming an existing unlocked line returned
C4_Witness ==
    /\ Returned /\ last.params.operation = "insert" /\ last.params.newText = Undefined
    /\ Named(last.params.lines) \cap Existing(last.before) # {}
    /\ ~TargetsLocked(last.params, last.before)

\* C5: metadata.totalLines equals document.lines.length after every call.
C5_TotalLines == document.metadata.totalLines = Len(document.lines)

\* C5 witness: a delete that removed lines returned
C5_Witness ==
    /\ Returned /\ last.result.success /\ last.params.operation = "delete"
    /\ Len(document.lines) < Len(last.before.lines)

\* C6: replace or insert with a non-empty lines list, no locked target and
\* newText = "" passes validation and succeeds: replace leaves the targeted
\* lines with empty text, insert adds lines with empty text.
C6_EmptyNewTextAccepted ==
    ( /\ Returned
      /\ last.params.operation \in {"replace", "insert"}
      /\ Len(last.params.lines) > 0
      /\ ~TargetsLocked(last.params, last.before)
      /\ last.params.newText = "" ) =>
        /\ last.result.success
        /\ \A i \in 1..Len(last.before.lines) :
              ( /\ last.params.operation = "replace"
                /\ last.before.lines[i].lineNumber \in Named(last.params.lines) ) =>
                    document.lines[i].text = ""
        /\ ( /\ last.params.operation = "insert"
             /\ Named(last.params.lines) \cap Existing(last.before) # {} ) =>
                 \E j \in 1..Len(document.lines) :
                     document.lines[j].text = "" /\ Len(document.lines) > Len(last.before.lines)

\* how many entries of a list equal n
Occurrences(targets, n) == Cardinality({k \in 1..Len(targets) : targets[k] = n})

\* the contents an insert is to leave: every line from i on, each followed by
\* one new line per entry of targets that names it
RECURSIVE InsertedContents(_, _, _, _)
InsertedContents(lines, i, targets, newText) ==
    IF i > Len(lines)
    THEN <<>>
    ELSE <<Content(lines[i])>>
         \o [k \in 1..Occurrences(targets, lines[i].lineNumber) |->
                [text |-> newText, pageNumber |-> lines[i].pageNumber,
                 isLocked |-> FALSE, isPlaceholder |-> FALSE]]
         \o InsertedContents(lines, i + 1, targets, newText)

\* C7: a successful insert leaves every pre-existing line in place, unchanged
\* but for its number, each followed by one new line {newText, its pageNumber,
\* unlocked, no placeholder} per entry of params.lines that names it, and the
\* lines numbered from 1; [A,B] with insert([1],"X") gives [A,X,B] and
\* insert([1,2],"X") gives [A,X,B,X].
C7_InsertSemantics ==
    (Returned /\ last.result.success /\ last.params.operation = "insert") =>
        /\ Contents(document.lines) =
              InsertedContents(last.before.lines, 1, last.params.lines, last.params.newText)
        /\ NumberedFromOne(document.lines)
        /\ ( /\ Texts(last.before.lines) = <<"A", "B">>
             /\ last.params.newText = "X"
             /\ last.params.lines = <<Num(1)>> ) => Texts(document.lines) = <<"A", "X", "B">>
        /\ ( /\ Texts(last.before.lines) = <<"A", "B">>
             /\ last.params.newText = "X"
             /\ last.params.lines = <<Num(1), Num(2)>> ) => Texts(document.lines) = <<"A", "X", "B", "X">>

\* C7 witness: insert([1,2],"X") on [A,B] returned [A,X,B,X]
C7_Witness ==
    /\ Returned /\ last.result.success /\ last.params.operation = "insert"
    /\ Texts(last.before.lines) = <<"A", "B">>
    /\ last.params.lines = <<Num(1), Num(2)>>
    /\ Texts(document.lines) = <<"A", "X", "B", "X">>

\* C8: a successful delete removes exactly the lines whose number before the
\* call is in params.lines; the others keep their order, text, pageNumber and
\* flags and are numbered from 1; [A,B,C] with delete([2]) gives [A,C] and
\* totalLines = 2.
C8_DeleteSemantics ==
    (Returned /\ last.result.success /\ last.params.operation = "delete") =>
        /\ Contents(document.lines) =
              Contents(SelectSeq(last.before.lines,
                                 LAMBDA line : line.lineNumber \notin Named(last.params.lines)))
        /\ NumberedFromOne(document.lines)
        /\ ( /\ Texts(last.before.lines) = <<"A", "B", "C">>
             /\ last.params.lines = <<Num(2)>> ) =>
                 Texts(document.lines) = <<"A", "C">> /\ document.metadata.totalLines = 2

\* C8 witness: delete([2]) on [A,B,C] returned [A,C]
C8_Witness ==
    /\ Returned /\ last.result.success /\ last.params.operation = "delete"
    /\ Texts(last.before.lines) = <<"A", "B", "C">>
    /\ last.params.lines = <<Num(2)>>
    /\ Texts(document.lines) = <<"A", "C">>

\* C9: a successful replace sets the text of every existing targeted line to
\* newText and changes nothing else: not the number of lines, not a line's
\* lineNumber, pageNumber or flags, not the text of any other line.
C9_ReplaceFrame ==
    (Returned /\ last.result.success /\ last.params.operation = "replace") =>
        /\ Len(document.lines) = Len(last.before.lines)
        /\ \A i \in 1..Len(last.before.lines) :
              document.lines[i] =
                  IF last.before.lines[i].lineNumber \in Named(last.params.lines)
                  THEN [last.before.lines[i] EXCEPT !.text = last.params.newText]
                  ELSE last.before.lines[i]
        /\ document.id = last.before.id
        /\ document.metadata = last.before.metadata

\* C9 witness: a replace that rewrote a placeholder line and left another line alone
C9_Witness ==
    /\ Returned /\ last.result.success /\ last.params.operation = "replace"
    /\ \E i, j \in 1..Len(last.before.lines) :
          /\ last.before.lines[i].lineNumber \in Named(last.params.lines)
          /\ last.before.lines[i].isPlaceholder
          /\ document.lines[i].text # last.before.lines[i].text
          /\ last.before.lines[j].lineNumber \notin Named(last.params.lines)

\* C10: on success modifiedLines holds exactly the targeted numbers that named
\* an existing line before the call: nothing else is reported, nothing of it
\* is left out.
C10_ModifiedLines ==
    (Returned /\ last.result.success) =>
        Named(last.result.modifiedLines) = Named(last.params.lines) \cap Existing(last.before)

\* C10 witness: a delete naming an existing line and a missing one returned,
\* and the lines after the deleted one were renumbered
C10_Witness ==
    /\ Returned /\ last.result.success /\ last.params.operation = "delete"
    /\ Named(last.params.lines) \ Existing(last.before) # {}
    /\ Named(last.params.lines) \cap Existing(last.before) # {}
    /\ Named(last.result.modifiedLines) \ Existing(document) # {}

\* the call gets past validation: lines given, a known operation, a newText
\* the newText check lets through, no locked target
PassesValidation(params, doc) ==
    /\ Len(params.lines) > 0
    /\ params.operation \in {"replace", "insert", "delete"}
    /\ params.operation \in {"replace", "insert"} => params.newText \notin {Undefined, ""}
    /\ ~TargetsLocked(params, doc)

\* how many entries of a list name a line of doc
Resolving(targets, doc) ==
    Cardinality({k \in 1..Len(targets) : targets[k] \in Existing(doc)})

\* C11: a call that passes validation and names numbers with no matching line
\* still returns success = true, acts on the named lines that exist and
\* ignores the others; when no named line exists it returns success = true
\* with modifiedLines = [] and leaves the document as it was.
C11_UnresolvableSkipped ==
    ( /\ Returned
      /\ PassesValidation(last.params, last.before)
      /\ Named(last.params.lines) \ Existing(last.before) # {} ) =>
        /\ last.result.success
        /\ Named(last.result.modifiedLines) = Named(last.params.lines) \cap Existing(last.before)
        /\ last.params.operation = "replace" =>
              /\ Len(document.lines) = Len(last.before.lines)
              /\ \A i \in 1..Len(last.before.lines) :
                    last.before.lines[i].lineNumber \in Named(last.params.lines) =>
                        document.lines[i].text = last.params.newText
        /\ last.params.operation = "delete" =>
              Len(document.lines) = Len(last.before.lines)
                  - Cardinality(Named(last.params.lines) \cap Existing(last.before))
        /\ last.params.operation = "insert" =>
              Len(document.lines) = Len(last.before.lines)
                  + Resolving(last.params.lines, last.before)
        /\ Named(last.params.lines) \cap Existing(last.before) = {} =>
              last.result.modifiedLines = <<>> /\ document = last.before

\* C11 witness: a delete naming a missing line and an existing one removed the existing one
C11_Witness ==
    /\ Returned /\ last.result.success /\ last.params.operation = "delete"
    /\ Named(last.params.lines) \ Existing(last.before) # {}
    /\ Named(last.params.lines) \cap Existing(last.before) # {}
    /\ Len(document.lines) = Len(last.before.lines) - 1
    /\ Len(last.params.lines) > 1

\* pageNumber never falls along the line order
PagesNonDecreasing(lines) ==
    \A i \in 1..Len(lines), j \in 1..Len(lines) :
        i < j => lines[i].pageNumber <= lines[j].pageNumber

\* the lines of every page stand next to each other
PageBlocksContiguous(lines) ==
    \A i \in 1..Len(lines), j \in 1..Len(lines), m \in 1..Len(lines) :
        (i < m /\ m < j /\ lines[i].pageNumber = lines[j].pageNumber)
            => lines[m].pageNumber = lines[i].pageNumber

\* C26: on a document ingested with pageNumber non-decreasing along the lines,
\* pageNumber is still non-decreasing after any sequence of executeDocEdit
\* calls, so the lines of each page form one contiguous block.
C26_PageBlocks ==
    /\ PagesNonDecreasing(document.lines)
    /\ PageBlocksContiguous(document.lines)

\* C26 witness: an insert after a line of the second page returned, on a
\* document that holds lines of both pages
C26_Witness ==
    /\ Returned /\ last.result.success
    /\ last.params.operation = "insert"
    /\ \E i \in 1..Len(last.before.lines) :
          /\ last.before.lines[i].pageNumber = 2
          /\ last.before.lines[i].lineNumber \in Named(last.params.lines)
    /\ Len(document.lines) > Len(last.before.lines)
    /\ document.lines[1].pageNumber = 1

\* the entries of targets that name a line of doc, each counted as often as it is listed
ListedExisting(targets, doc) == {k \in 1..Len(targets) : targets[k] \in Existing(doc)}

\* C27: a successful replace leaves the number of lines as it was; a successful
\* delete lowers it by the number of distinct targeted numbers that name a
\* line; a successful insert raises it by the number of entries of params.lines
\* that name a line, an entry listed twice counting twice.
C27_LineCount ==
    (Returned /\ last.result.success) =>
        LET was == Len(last.before.lines)
            now == Len(document.lines)
            targets == last.params.lines
        IN  /\ last.params.operation = "replace" => now = was
            /\ last.params.operation = "delete"
                  => now = was - Cardinality(Named(targets) \cap Existing(last.before))
            /\ last.params.operation = "insert"
                  => now = was + Cardinality(ListedExisting(targets, last.before))

\* C27 witness: insert([1,1]) returned and the document is two lines longer
C27_Witness ==
    /\ Returned /\ last.result.success
    /\ last.params.operation = "insert"
    /\ last.params.lines = <<Num(1), Num(1)>>
    /\ Len(document.lines) = Len(last.before.lines) + 2

\* ------------------------------------------------------------------------
\* Properties of executeDocSearch and executeDocRead
\* ------------------------------------------------------------------------
\* the state right after an executeDocSearch call returned
Searched == last.kind = "search"

\* the state right after an executeDocRead call returned
ReadReturned == last.kind = "read"

\* the query is empty or all white space
Blank(query) == \A i \in 1..Len(Chars(query)) : Chars(query)[i] = " "

\* the line's text contains the query, letter case aside
Contains(line, query) ==
    Includes(ToLowerCase(Chars(line.text)), ToLowerCase(Chars(query)))

\* the SearchResult the line is to give: 1.0 (10 tenths) for a whole-text match
HitOf(line, query) ==
    [ lineNumber |-> line.lineNumber, text |-> line.text,
      score |-> IF ToLowerCase(Chars(line.text)) = ToLowerCase(Chars(query)) THEN 10 ELSE 5 ]

\* every SearchResult the query has in the document
Hits(doc, query) ==
    {HitOf(doc.lines[i], query) : i \in {j \in 1..Len(doc.lines) : Contains(doc.lines[j], query)}}

\* r comes before h: higher score, or the same score and a lower line number
Before(r, h) == r.score > h.score \/ (r.score = h.score /\ r.lineNumber < h.lineNumber)

\* the smaller of two numbers
Least(a, b) == IF a <= b THEN a ELSE b

\* C12: for a non-blank query and a limit that is omitted or positive, the
\* results are lines that contain the query (letter case aside), scored 1.0
\* when the whole text equals the query and 0.5 otherwise, ordered by score
\* descending and then lineNumber ascending, and they are the first
\* min(limit, 20) of all such lines (5 when the limit is omitted); on
\* [apple, Banana, cab] the query "b" returns lines 2 and 3, both 0.5.
C12_SearchResults ==
    ( /\ Searched
      /\ ~Blank(last.args.query)
      /\ "limit" \in DOMAIN last.args => last.args.limit > 0 ) =>
        LET results == last.results
            hits == Hits(document, last.args.query)
            limit == IF "limit" \in DOMAIN last.args
                     THEN Least(last.args.limit, LimitCap) ELSE DefaultLimit
        IN  /\ \A k \in 1..Len(results) : results[k] \in hits
            /\ \A j, k \in 1..Len(results) : j < k => Before(results[j], results[k])
            /\ Len(results) = Least(Cardinality(hits), limit)
            /\ \A h \in hits : (\A k \in 1..Len(results) : results[k] # h) =>
                  \A k \in 1..Len(results) : Before(results[k], h)
            /\ ( /\ Texts(document.lines) = <<"apple", "Banana", "cab">>
                 /\ last.args.query = "b"
                 /\ limit >= 2 ) =>
                     results = << [lineNumber |-> Num(2), text |-> "Banana", score |-> 5],
                                  [lineNumber |-> Num(3), text |-> "cab", score |-> 5] >>

\* C12 witness: a search whose whole-text match stands after a partial match in
\* the document, and with more hits than the limit lets through
C12_Witness ==
    /\ Searched /\ ~Blank(last.args.query)
    /\ "limit" \in DOMAIN last.args /\ last.args.limit > 1
    /\ Len(last.results) = last.args.limit
    /\ Cardinality(Hits(document, last.args.query)) > last.args.limit
    /\ \E h1, h2 \in Hits(document, last.args.query) :
          h1.lineNumber < h2.lineNumber /\ h1.score < h2.score

\* C13: at most min(limit, 20) results for a positive limit, 5 for an omitted
\* limit, and a limit of 0 or below counts as 5: a query with k matching
\* lines returns min(k, 5) results then.
C13_LimitHandling ==
    (Searched /\ ~Blank(last.args.query)) =>
        LET k == Cardinality(Hits(document, last.args.query))
            limit == IF "limit" \in DOMAIN last.args /\ last.args.limit > 0
                     THEN Least(last.args.limit, LimitCap) ELSE DefaultLimit
        IN  Len(last.results) = Least(k, limit)

\* C14: an empty or all-white-space query returns no result, whatever the document.
C14_BlankQuery == (Searched /\ Blank(last.args.query)) => last.results = <<>>

\* C14 witness: a query of white space returned, on a document with a line that contains it
C14_Witness ==
    /\ Searched /\ Blank(last.args.query) /\ Len(Chars(last.args.query)) > 0
    /\ \E i \in 1..Len(document.lines) : Contains(document.lines[i], last.args.query)

\* C16: executeDocRead returns the lines found in ascending lineNumber order,
\* whatever order the caller listed them in, and leaves out the numbers with
\* no line.
C16_ReadAscending ==
    (ReadReturned /\ last.result.success) =>
        /\ \A j, k \in 1..Len(last.result.lines) :
              j < k => last.result.lines[j].lineNumber <= last.result.lines[k].lineNumber
        /\ {last.result.lines[k] : k \in 1..Len(last.result.lines)} =
              {document.lines[i] : i \in {j \in 1..Len(document.lines) :
                                            document.lines[j].lineNumber \in Named(last.lineNumbers)}}

\* C17: executeDocRead returns success = true for every non-empty list of
\* numbers, also when none of them has a line, and success = false only for
\* the empty list.
C17_ReadSuccess ==
    ReadReturned => (last.result.success <=> Len(last.lineNumbers) > 0)

\* C17 witness: a read of numbers that all have no line returned success with no lines
C17_Witness ==
    /\ ReadReturned /\ Len(last.lineNumbers) > 0
    /\ Named(last.lineNumbers) \cap Existing(document) = {}
    /\ Len(document.lines) > 0
    /\ last.result.success /\ last.result.lines = <<>>

\* ------------------------------------------------------------------------
\* Properties of the chat route's dispatch loop
\* ------------------------------------------------------------------------
\* the loop over the function calls is under way or over
Dispatching == last.kind = "dispatch"

\* the document calls 1..k leave behind, each applied to what the one before left
RECURSIVE DocumentAfter(_, _, _)
DocumentAfter(calls, k, received) ==
    IF k = 0 THEN received
    ELSE SwitchTool(calls[k], DocumentAfter(calls, k - 1, received)).document

\* delete([1]) followed by read([1])
DeleteThenRead(calls) ==
    /\ Len(calls) = 2
    /\ calls[1] = [name |-> "doc_edit",
                   args |-> EditArgs(JsString("delete"), JsArray(<<Num(1)>>), JsUndefined)]
    /\ calls[2] = [name |-> "doc_read", args |-> ReadArgs(JsArray(<<Num(1)>>))]

\* C18: the function calls of one turn run once each, in the order received,
\* on one document: call k returns what it returns on the document that calls
\* 1..k-1 produced, and the document after k calls is the one they produced in
\* turn; delete([1]) then read([1]) reads the line that was line 2.
C18_SequentialDispatch ==
    Dispatching =>
        /\ Len(last.results) = last.done /\ Len(last.invoked) = last.done
        /\ \A k \in 1..last.done :
              last.results[k] =
                  SwitchTool(last.functionCalls[k],
                             DocumentAfter(last.functionCalls, k - 1, last.received)).result
        /\ document = DocumentAfter(last.functionCalls, last.done, last.received)
        /\ ( /\ DeleteThenRead(last.functionCalls) /\ last.done = 2
             /\ Len(last.received.lines) >= 2 /\ ~last.received.lines[1].isLocked )
           => /\ last.results[2].success
              /\ Len(last.results[2].lines) = 1
              /\ last.results[2].lines[1].text = last.received.lines[2].text
              /\ last.results[2].lines[1].lineNumber = Num(1)

\* delete([1]) and read([1]) have both run on a document of two lines or more
C18_Witness ==
    /\ Dispatching /\ last.done = 2
    /\ DeleteThenRead(last.functionCalls)
    /\ Len(last.received.lines) >= 2 /\ ~last.received.lines[1].isLocked
    /\ last.results[1].success
    /\ last.results[2].lines[1].text = last.received.lines[2].text

\* C19: the dispatch loop never raises: whatever the tool name and the
\* arguments, every call dispatched so far has left one result text and no
\* exception has left the loop, so the calls after a failed one are dispatched.
C19_DispatcherNeverRaises ==
    Dispatching =>
        /\ ~last.raised
        /\ Len(last.toolResults) = last.done
        /\ Len(last.results) = last.done

\* a call without args failed in the route, and the call after it was dispatched
C19_Witness ==
    /\ Dispatching /\ last.done = 2
    /\ last.functionCalls[1].args.type = "undefined"
    /\ last.toolResults[1].head = "Error executing"
    /\ Len(last.toolResults) = 2

\* args that fit Replace{lines,text}, Insert{lines,text} or Delete{lines}
FitsVariant(args) ==
    /\ args.type = "object"
    /\ args.lines.type = "array"
    /\ args.operation.type = "string"
    /\ \/ args.operation.value \in {"replace", "insert"} /\ args.newText.type = "string"
       \/ args.operation.value = "delete"

\* C20: a doc_edit call whose arguments fit none of Replace{lines,text},
\* Insert{lines,text}, Delete{lines} is turned down by the route, and
\* executeDocEdit is not invoked for it.
C20_ShapeValidated ==
    Dispatching =>
        \A k \in 1..last.done :
            ( last.functionCalls[k].name = "doc_edit" /\ ~FitsVariant(last.functionCalls[k].args) )
            => last.invoked[k] # "executeDocEdit"

\* ------------------------------------------------------------------------
\* Properties of generateWithRetry
\* ------------------------------------------------------------------------
\* an attempt that gave a non-empty text
GaveText(outcome) == outcome.kind = "text" /\ outcome.text # ""

\* the failure message an attempt leaves behind
MessageOf(outcome) ==
    IF outcome.kind = "throw" THEN outcome.message
    ELSE IF outcome.kind = "throwValue" THEN "Unknown error"
    ELSE "Empty response from Gemini"

\* C25: generateWithRetry calls the model at most three times; it returns the
\* text of the first attempt that gives a non-empty text and calls no more;
\* a throw or an empty text is a failed attempt; after failed attempt k < 3 it
\* waits RETRY_DELAY * k and after the third it does not wait; after three
\* failures it throws with the message of the last failure.
C25_RetryBounded ==
    last.kind = "retry" =>
        LET n == Len(last.outcomes)
            failed == {k \in 1..n : ~GaveText(last.outcomes[k])}
        IN  /\ n <= 3
            /\ \A k \in 1..(n - 1) : k \in failed
            /\ last.status = "returned"
                  => /\ n >= 1 /\ GaveText(last.outcomes[n])
                     /\ last.value = last.outcomes[n].text
            /\ last.status = "thrown"
                  => /\ n = 3 /\ failed = 1..3
                     /\ last.value = MessageOf(last.outcomes[3])
            /\ (last.status = "running" /\ n = 3) => FALSE
            /\ Len(last.waits) = Cardinality(failed \cap {1, 2})
            /\ \A k \in 1..Len(last.waits) : last.waits[k] = 1000 * k

\* C25 witness: two failures and waits of 1000 and 2000 ms, then a third
\* failure, and the call threw with the third failure's message
C25_Witness ==
    /\ last.kind = "retry" /\ last.status = "thrown"
    /\ last.outcomes[1].kind = "text" /\ last.outcomes[2].kind = "throw"
    /\ last.outcomes[3] = [kind |-> "throw", message |-> "E2"]
    /\ last.waits = <<1000, 2000>>
    /\ last.value = "E2"

\* ------------------------------------------------------------------------
\* Properties of the chat route's response
\* ------------------------------------------------------------------------
\* the route has answered with status 200
Answered == last.kind = "response" /\ last.response.status = 200

\* call k of the turn was a doc_edit that returned success = true
EditSucceeded(k) ==
    /\ last.functionCalls[k].name = "doc_edit"
    /\ "success" \in DOMAIN last.results[k]
    /\ last.results[k].success

ShowsLine(doc, n, text) ==
    \E i \in 1..Len(doc.lines) : doc.lines[i].lineNumber = n /\ doc.lines[i].text = text

\* C24: the citations are resolved against the document as received, before
\* the first model call and before any tool runs, and the response carries
\* them unchanged: every cited number and text is a line of the received
\* document, whatever the edits of the turn did to it.
C24_CitationsBeforeTools ==
    /\ last.kind = "request"
          => last.resolvedCitations = ResolveCitations(ParseCitations(last.message), document)
    /\ last.kind \in {"dispatch", "response"}
          => last.resolvedCitations
                 = ResolveCitations(ParseCitations(last.message), last.received)
    /\ (Answered /\ "citations" \in DOMAIN last.response.body)
          => /\ last.response.body.citations = last.resolvedCitations
             /\ \A i \in 1..Len(last.response.body.citations) :
                   LET c == last.response.body.citations[i]
                   IN  /\ Len(c.lineNumbers) = Len(c.resolvedContent)
                       /\ \A k \in 1..Len(c.resolvedContent) :
                             /\ c.resolvedContent[k][1] = c.lineNumbers[k]
                             /\ ShowsLine(last.received, c.resolvedContent[k][1],
                                          c.resolvedContent[k][2])
    /\ (Answered /\ "citations" \notin DOMAIN last.response.body)
          => ParseCitations(last.message) = <<>>

\* C24 witness: the message cited line 1, the turn deleted line 1, and the
\* response cites line 1 with its text as received while the document it
\* carries has another line 1
C24_Witness ==
    /\ Answered
    /\ last.message = "@line1"
    /\ "document" \in DOMAIN last.response.body
    /\ last.response.body.citations[1].resolvedContent = <<(<<Num(1), "A">>)>>
    /\ ShowsLine(last.response.body.document, Num(1), "B")

\* ------------------------------------------------------------------------
\* Properties of the page
\* ------------------------------------------------------------------------
\* the latest step of the page was the handler named
Handled(op) == last.kind = "page" /\ last.event.op = op

\* a line without its lock flag
Unlocked(line) ==
    [ lineNumber |-> line.lineNumber, text |-> line.text, pageNumber |-> line.pageNumber,
      isPlaceholder |-> line.isPlaceholder ]

\* the lines of a document without their lock flags, in order
Frame(doc) == [i \in 1..Len(doc.lines) |-> Unlocked(doc.lines[i])]

\* the lock flags of a document, in order
Locks(doc) == [i \in 1..Len(doc.lines) |-> doc.lines[i].isLocked]

\* the Actions of a response, none when the field is absent
ActionsOf(response) ==
    IF "actions" \in DOMAIN response.body THEN response.body.actions ELSE <<>>

\* the response lists an Action of a doc_edit call
EditTried(response) ==
    \E i \in 1..Len(ActionsOf(response)) : ActionsOf(response)[i].type = "edit"

\* C21: only executeDocEdit changes the line sequence: a lock toggle leaves
\* every number, text and page as it was and flips the lock flag of the line
\* clicked and of no other; auto-lock changes lock flags only; and a request
\* whose tool calls were searches and reads leaves the route's document as
\* it was received.
C21_OnlyEditsChangeLines ==
    /\ Handled("toggle") =>
          /\ Frame(document) = Frame(last.event.before)
          /\ \A i \in 1..Len(document.lines) :
                document.lines[i].isLocked
                    = IF document.lines[i].lineNumber = last.event.line.lineNumber
                      THEN ~last.event.before.lines[i].isLocked
                      ELSE last.event.before.lines[i].isLocked
          /\ document.metadata = last.event.before.metadata
    /\ Handled("autoLock") =>
          /\ Frame(document) = Frame(last.event.before)
          /\ document.metadata = last.event.before.metadata
    /\ last.kind = "page" =>
          \A i \in 1..Len(last.requests) :
              ( /\ last.requests[i].state = "answered"
                /\ last.requests[i].response.status = 200
                /\ ~EditTried(last.requests[i].response) )
                  => last.requests[i].served = last.requests[i].body.document

\* C21 witness: a line of a document of three lines, one of them locked
\* already, has had its lock toggled
C21_Witness ==
    /\ Handled("toggle")
    /\ Len(document.lines) = 3
    /\ last.event.line.lineNumber = Num(2)
    /\ Locks(last.event.before) = <<TRUE, FALSE, FALSE>>
    /\ Locks(document) = <<TRUE, TRUE, FALSE>>

\* the lines a response reports as modified by its successful edits
RECURSIVE ModifiedCount(_, _)
ModifiedCount(actions, i) ==
    IF i > Len(actions) THEN 0
    ELSE (IF actions[i].type = "edit" /\ actions[i].success
          THEN actions[i].details.modified ELSE 0) + ModifiedCount(actions, i + 1)

\* C23: once the page has applied a response whose Actions hold a successful
\* doc_edit that modified at least one line, the edit history is longer by one
\* entry for each modified line of those Actions.
C23_EditTracking ==
    ( /\ Handled("response")
      /\ ~ResponseFailed(last.event.request.response)
      /\ ModifiedCount(ActionsOf(last.event.request.response), 1) > 0 )
        => Len(last.editHistory)
              = Len(last.event.editHistory)
                + ModifiedCount(ActionsOf(last.event.request.response), 1)

\* every successful edit the response reports is a replace
OnlyReplaced(response) ==
    \A i \in 1..Len(ActionsOf(response)) :
        LET a == ActionsOf(response)[i]
        IN  (a.type = "edit" /\ a.success) => a.details.operation = JsString("replace")

\* C28: a response that carries a document replaces the page's whole document
\* by the route's copy, which stems from the document sent: whatever lock the
\* user toggled while the request was under way is gone (when the turn only
\* replaced text every lock flag is the one sent), and the text of a line
\* the user locked meanwhile can be the agent's.
C28_LostToggle ==
    ( /\ Handled("response")
      /\ ~ResponseFailed(last.event.request.response)
      /\ "document" \in DOMAIN last.event.request.response.body )
        => /\ document = last.event.request.response.body.document
           /\ document = last.event.request.served
           /\ last.stored = document
           /\ OnlyReplaced(last.event.request.response)
                 => Locks(document) = Locks(last.event.request.body.document)

\* C28 witness: line 1 was sent unlocked, the user locked it while the request
\* was under way, and the response applied has line 1 unlocked with the
\* agent's text
C28_Witness ==
    /\ Handled("response")
    /\ "document" \in DOMAIN last.event.request.response.body
    /\ Len(last.event.before.lines) >= 1 /\ Len(document.lines) >= 1
    /\ ~last.event.request.body.document.lines[1].isLocked
    /\ last.event.before.lines[1].isLocked
    /\ last.event.before.lines[1].text = "A"
    /\ ~document.lines[1].isLocked
    /\ document.lines[1].text = "X"

\* C29: at most one chat request is under way: a request is under way exactly
\* while isLoading is true, a submit made meanwhile sends nothing, and
\* isLoading is false again once the response or the error has been handled.
C29_OneRequestInFlight ==
    last.kind = "page" =>
        /\ Len(last.requests) <= 1
        /\ last.isLoading <=> Len(last.requests) = 1
        /\ Handled("response") => ~last.isLoading
        /\ (Handled("blocked") /\ last.event.isLoading) => Len(last.requests) = 1

\* C29 witness: a submit with a message typed was turned down while the
\* answer of the request before it was on its way
C29_Witness ==
    /\ Handled("blocked")
    /\ last.event.input = "hi"
    /\ last.isLoading
    /\ Len(last.requests) = 1 /\ last.requests[1].state = "answered"

\* C30: when the route answers with an error the page's document and the
\* stored document are what they were before the answer came, and but for the
\* locks the user toggled meanwhile they are what was sent, also when the
\* route had already edited its own copy.
C30_FailureKeepsDocument ==
    (Handled("response") /\ ResponseFailed(last.event.request.response)) =>
        /\ document = last.event.before
        /\ last.stored = last.event.stored
        /\ last.stored = document
        /\ Frame(document) = Frame(last.event.request.body.document)
        /\ last.editHistory = last.event.editHistory
        /\ last.error # "null"

\* C30 witness: the final model call failed after the route had edited its
\* copy, the user had toggled a lock meanwhile, and the page kept its document
C30_Witness ==
    /\ Handled("response")
    /\ last.event.request.response.status = 500
    /\ last.event.request.served # last.event.request.body.document
    /\ last.event.before # last.event.request.body.document
    /\ document = last.event.before

====
